---- MODULE Spec2Model ----
(***************************************************************************)
(* Session-event capture pipeline of footage-bot.                          *)
(*                                                                         *)
(*   client  : the two recorder scripts of src/unnamed/part_000            *)
(*             ("autoloader": lines 1-148, "recorder": lines 161-352)      *)
(*   network : requests between a send call and its completion             *)
(*   server  : POST /api/recordings/ingest (src/convex/http.ts) and the    *)
(*             recordings mutations (src/convex/recordings.ts)             *)
(*                                                                         *)
(* An event is the number of its emission by the capture source (1, 2, ..),*)
(* so recording order is numeric order.                                    *)
(***************************************************************************)
EXTENDS Integers, Sequences, FiniteSets, TLC

\* ------------------------------------------------------------- bounds
\* events the capture source emits, transport calls, forceStop()-and-init()
\* cycles, session ids and mutation calls made directly on the store
MaxEvents == 2
MaxSends == 2
MaxTeardowns == 1
MaxSid == 2
MaxCalls == 3

\* ---------------------------------------------------- program constants
BATCH_SIZE == 50

null == 0
SessionIds == 1..MaxSid

\* The value of a property an object does not have, a string that is not
\* looked into, and the empty string.
undefined == -1
aString == -2
emptyString == -3

VARIABLES
  script,            \* which of the two scripts the page includes
  sendBeacon,        \* whether navigator.sendBeacon exists
  rrweb,             \* typeof rrweb !== 'undefined'
  loader,            \* "none" | "pending" | "done" | "error": script evaluation / CDN load
  storage,           \* sessionStorage['_improverSessionId'] (null: no item)
  events,            \* the pending queue
  stopFn,            \* handle of the recorder started last, or null
  flushTimer,        \* handle of the interval timer, or null
  initialized,
  sessionId,         \* autoloader: the cached id (part_000:15)
  improverSessionId, \* recorder: window._improverSessionId
  initResult,        \* what the last init() call returned (null: undefined)
  recorders,         \* handles of the rrweb recorders that are capturing
  timers,            \* handles of the interval timers that are running
  listeners,         \* registered <<event type, callback>> pairs
  emitted,           \* events the capture source has produced so far
  recordedIn,        \* per event: the session id that was current when it was recorded
  sendLog,           \* every call of the transport, in call order
  status,            \* per call of sendLog: where that request is. In flight:
                     \* "sent", "ok" (stored, 2xx on its way), "err" (non-OK on
                     \* its way). Ended: "delivered", "failed" (put back, not
                     \* stored), "unacked" (put back although stored), "refused"
                     \* (sendBeacon returned false, put back), "rejected"
                     \* (non-OK response the client ignored), "lost" (beacon)
  queueAtSend,       \* the pending queue as the last transport call left it
  epoch,             \* session ids seen and recorders started since the last forceStop
  recordings,        \* the recordings table, in insertion order
  txns,              \* mutations that have read and not yet committed
  calls,             \* mutation calls made directly on the store
  results,           \* outcome of each committed mutation call, in commit order
  apiKey,            \* fetchSnapshots: process.env.POSTHOG_API_KEY is set
  manifest,          \* fetchSnapshots: how the manifest request ends, and its body
  upstream,          \* how the recording service serialises the events of a chunk
  pc,                \* fetchSnapshots: "start" | "blob_v2" | "blob" | "returned" | "threw"
  blobKeys,          \* fetchSnapshots: the sorted blob_v2 keys
  cursor,            \* fetchSnapshots: the loop index (i of the blob_v2 loop,
                     \* then the position in blobSources)
  allEvents,         \* fetchSnapshots: the events accepted so far
  requests,          \* every chunk request fetchSnapshots issued, with how it ended
  returned,          \* what fetchSnapshots returned
  session,           \* SessionReplay: useQuery(getByPosthogId): "undefined" | "null" | "loaded"
  snapshots,         \* SessionReplay: [set |-> FALSE, ..] for null, else the array
  loadingSnapshots,
  error,             \* SessionReplay: the message, "" for null
  playerInstance,    \* SessionReplay: [set |-> FALSE, ..] for null, else the player
                     \* with the events it was constructed with
  playerImport,      \* SessionReplay: import('rrweb-player') and the construction:
                     \* "idle" | "pending" | "resolved" | "threw" | "rejected"
  fetchCall,         \* SessionReplay: the fetchSnapshots call: "unmounted" |
                     \* "idle" | "pending" | "resolved" | "rejected"
  payload,           \* sanitizer: the node tree of a full-snapshot event
  sanitized          \* sanitizer: [set |-> FALSE, ..] before the call, else its output

clientVars == <<script, sendBeacon, rrweb, loader, storage, events, stopFn,
                flushTimer, initialized, sessionId, improverSessionId,
                initResult, recorders, timers, listeners, emitted, recordedIn, sendLog,
                status, queueAtSend, epoch>>
storeVars == <<txns, calls, results>>
fetchVars == <<apiKey, manifest, upstream, pc, blobKeys, cursor, allEvents,
               requests, returned>>
viewVars == <<session, snapshots, loadingSnapshots, error, playerInstance,
              playerImport, fetchCall>>
readVars == <<fetchVars, viewVars>>
sanitizerVars == <<payload, sanitized>>
vars == <<clientVars, recordings, storeVars, readVars, sanitizerVars>>

\* ------------------------------------------------------------ helpers
Range(s) == {s[i] : i \in DOMAIN s}

Min(S) == CHOOSE x \in S : \A y \in S : x <= y

\* A handle the platform hands out: one that no live object holds.
NewHandle(S) == Min((1..(Cardinality(S) + 1)) \ S)

\* Mutant of splice: one item is removed whatever deleteCount says.
splice_one(arr, start, deleteCount) ==
  [removed |-> SubSeq(arr, start + 1, start + 1),
   rest    |-> SubSeq(arr, 1, start) \o SubSeq(arr, start + 2, Len(arr))]

\* Array.prototype.splice(start, deleteCount): the removed items and what is left.
splice(arr, start, deleteCount) ==
  [removed |-> SubSeq(arr, start + 1, start + deleteCount),
   rest    |-> SubSeq(arr, 1, start) \o SubSeq(arr, start + deleteCount + 1, Len(arr))]

\* Array.prototype.unshift(...items)
unshift(arr, items) == items \o arr

\* Array.prototype.push(item)
push(arr, item) == Append(arr, item)

\* EventTarget.addEventListener: a listener with the same type and the same
\* callback object is not added again.
addEventListener(ls, type, callback) == ls \cup {<<type, callback>>}

ListenersOf(type) == {l \in listeners : l[1] = type}

\* The closure init()/startRecording() creates for visibilitychange is a new
\* function object at every execution of the registration block.
NewClosure(ls) == <<"closure", Cardinality({l \in ls : l[1] = "visibilitychange"}) + 1>>

\* ------------------------------------------------------- session ids
\* Every session id the client or the server holds or has sent.
UsedIds ==
  {storage, sessionId, improverSessionId}
    \cup {sendLog[i].sessionId : i \in DOMAIN sendLog}
    \cup {recordings[i].sessionId : i \in DOMAIN recordings}

\* generateSessionId(): a random UUID, an id nobody holds yet.
generateSessionId == Min((1..(Cardinality(UsedIds) + 1)) \ UsedIds)

\* Mutant of getOrCreateSessionId: a new id at every call.
getOrCreateSessionId_fresh(st, gen) == [id |-> gen, storage |-> gen]

\* recorder, getOrCreateSessionId(): the id and the storage after the call.
getOrCreateSessionId(st, gen) ==
  IF st # null THEN [id |-> st, storage |-> st]
  ELSE [id |-> gen, storage |-> gen]

\* autoloader, getSessionId(): the cached id and the storage after the call.
getSessionId(cached, st, gen) ==
  IF cached # null THEN [id |-> cached, storage |-> st]
  ELSE IF st # null THEN [id |-> st, storage |-> st]
  ELSE [id |-> gen, storage |-> gen]

\* The id a send call puts in its payload.
PayloadSessionId ==
  IF script = "recorder" THEN improverSessionId ELSE sessionId

\* ------------------------------------------------------- sendEvents
\* The part of the state sendEvents() reads and writes.
Q == [events |-> events, sendLog |-> sendLog, status |-> status,
      queueAtSend |-> queueAtSend, epoch |-> epoch]

SetQ(q, cap) ==
  /\ events' = q.events
  /\ sendLog' = q.sendLog
  /\ status' = q.status
  /\ queueAtSend' = q.queueAtSend
  /\ epoch' = q.epoch
  /\ Len(q.sendLog) <= cap

\* Mutant of Drain: the batch is a copy (slice), the queue keeps its events.
Drain_copy(queue) == [removed |-> queue, rest |-> queue]

\* const batch = events.splice(0, events.length)
Drain(queue) == splice(queue, 0, Len(queue))

\* The transport's failure branch: events.unshift(...batch)
Requeue(queue, batch) == unshift(queue, batch)

\* One call of sendEvents(). beaconOk is what navigator.sendBeacon returns when
\* the autoloader uses it. A fetch is left in flight ("sent"); its completion is
\* a later step.
sendEvents(q, beaconOk) ==
  IF Len(q.events) = 0 THEN q
  ELSE
    LET d == Drain(q.events)
        batch == d.removed
        viaBeacon == script = "autoloader" /\ sendBeacon
        call == [sessionId |-> PayloadSessionId, events |-> batch,
                 via |-> IF viaBeacon THEN "beacon" ELSE "fetch"]
        seen == IF q.epoch.closed THEN q.epoch
                ELSE [q.epoch EXCEPT !.ids = @ \cup {call.sessionId}]
    IN IF viaBeacon /\ ~beaconOk
       THEN [events |-> Requeue(d.rest, batch),
             sendLog |-> Append(q.sendLog, call),
             status |-> Append(q.status, "refused"),
             queueAtSend |-> d.rest, epoch |-> seen]
       ELSE [events |-> d.rest,
             sendLog |-> Append(q.sendLog, call),
             status |-> Append(q.status, "sent"),
             queueAtSend |-> d.rest, epoch |-> seen]

\* n calls of sendEvents() in a row (n listeners of one signal); oks[i] is the
\* beacon's answer to the i-th.
RECURSIVE SendTimes(_, _, _)
SendTimes(q, n, oks) ==
  IF n = 0 THEN q
  ELSE sendEvents(SendTimes(q, n - 1, oks), oks[n])

\* Mutant of emit: the threshold is tested before the event is pushed.
emit_flush_first(q, event, beaconOk) ==
  LET flushed == IF Len(q.events) >= BATCH_SIZE THEN sendEvents(q, beaconOk) ELSE q
  IN [flushed EXCEPT !.events = push(@, event)]

\* The emit callback of rrweb.record: push, then flush at the size threshold.
emit(q, event, beaconOk) ==
  LET pushed == [q EXCEPT !.events = push(@, event)]
  IN IF Len(pushed.events) >= BATCH_SIZE THEN sendEvents(pushed, beaconOk)
     ELSE pushed

\* n capturing recorders each call their emit callback with the event.
RECURSIVE EmitTimes(_, _, _, _)
EmitTimes(q, event, n, oks) ==
  IF n = 0 THEN q
  ELSE emit(EmitTimes(q, event, n - 1, oks), event, oks[n])

\* ------------------------------------------------ starting and stopping
\* Mutant of NeedsTimer: the timer is set up at every start.
NeedsTimer_always(ft) == TRUE

\* if (!flushTimer)
NeedsTimer(ft) == ft = null

\* if (!initialized)
NeedsListeners(inited) == ~inited

\* The registration block: beforeunload and pagehide get the function
\* sendEvents itself, visibilitychange gets a new closure.
RegisterListeners(ls) ==
  addEventListener(
    addEventListener(
      addEventListener(ls, "beforeunload", <<"sendEvents", 0>>),
      "pagehide", <<"sendEvents", 0>>),
    "visibilitychange", NewClosure(ls))

\* What init() and startRecording() share from rrweb.record on: a recorder is
\* started, the timer and the listeners are set up under their guards.
StartCapture ==
  LET h == NewHandle(recorders)
      t == NewHandle(timers)
  IN /\ stopFn' = h
     /\ recorders' = recorders \cup {h}
     /\ IF NeedsTimer(flushTimer)
        THEN flushTimer' = t /\ timers' = timers \cup {t}
        ELSE UNCHANGED <<flushTimer, timers>>
     /\ listeners' = IF NeedsListeners(initialized)
                     THEN RegisterListeners(listeners) ELSE listeners
     /\ initialized' = TRUE

captureVars == <<stopFn, recorders, flushTimer, timers, listeners, initialized>>

\* Mutant of AlreadyRecording: a recorder is started at every call.
AlreadyRecording_never(inited, fn) == FALSE

\* if (initialized && stopFn) return
AlreadyRecording(inited, fn) == inited /\ fn # null

\* autoloader, startRecording(); rr is typeof rrweb !== 'undefined' at the call.
startRecording(rr) ==
  IF AlreadyRecording(initialized, stopFn) \/ ~rr
  THEN UNCHANGED captureVars
  ELSE StartCapture

\* The beacon's answers to up to n calls of one step.
Oks(n) == [1..n -> BOOLEAN]

envVars == <<script, sendBeacon>>
idVars == <<storage, sessionId, improverSessionId, initResult>>
queueVars == <<events, sendLog, status, queueAtSend, epoch>>

\* History for the session-id claims: the ids init() returned or a batch carried
\* since the first init() after the last forceStop(), and how many of those
\* init() calls started a recorder (counted up to 2: the second one follows a
\* stop()). forceStop() closes the epoch; the next init() opens a new one.
\* started: whether this init() call went past its early return.
Returned(ep, id, started) ==
  LET n == IF started THEN 1 ELSE 0
  IN IF ep.closed THEN [ids |-> {id}, starts |-> n, closed |-> FALSE]
     ELSE [ids |-> ep.ids \cup {id},
           starts |-> IF ep.starts + n < 2 THEN ep.starts + n ELSE 2,
           closed |-> FALSE]

\* ------------------------------------------------------------ client
\* The browser evaluates the script. recorder: window.ImproverRecorder is
\* exported. autoloader: getSessionId(); loadRrweb(startRecording).
Evaluate ==
  /\ loader = "none"
  /\ IF script = "recorder"
     THEN /\ loader' = "done"
          /\ UNCHANGED <<captureVars, idVars>>
     ELSE   LET g == getSessionId(sessionId, storage, generateSessionId)
            IN /\ sessionId' = g.id
               /\ storage' = g.storage
               /\ loader' = IF rrweb THEN "done" ELSE "pending"
               /\ startRecording(rrweb)
               /\ UNCHANGED <<improverSessionId, initResult>>
  /\ UNCHANGED <<sanitizerVars, readVars, envVars, rrweb, emitted, recordedIn, queueVars,
                 recordings, storeVars>>

\* The rrweb script finishes loading; the autoloader's script.onload runs
\* startRecording.
RrwebLoaded ==
  /\ ~rrweb
  /\ rrweb' = TRUE
  /\ IF script = "autoloader" /\ loader = "pending"
     THEN loader' = "done" /\ startRecording(TRUE)
     ELSE UNCHANGED <<loader, captureVars>>
  /\ UNCHANGED <<sanitizerVars, readVars, envVars, idVars, emitted, recordedIn,
                 queueVars, recordings, storeVars>>

\* autoloader, script.onerror: the CDN load failed, nothing is started.
RrwebLoadError ==
  /\ script = "autoloader" /\ loader = "pending" /\ ~rrweb
  /\ loader' = "error"
  /\ UNCHANGED <<sanitizerVars, readVars, envVars, rrweb, captureVars, idVars, emitted,
                 recordedIn, queueVars,
                 recordings, storeVars>>

\* recorder, ImproverRecorder.init()
init ==
  /\ script = "recorder" /\ loader = "done"
  /\ IF ~rrweb
     THEN /\ initResult' = null
          /\ UNCHANGED <<captureVars, storage, improverSessionId, epoch>>
     ELSE IF AlreadyRecording(initialized, stopFn)
     THEN /\ initResult' = improverSessionId
          /\ epoch' = Returned(epoch, improverSessionId, FALSE)
          /\ UNCHANGED <<captureVars, storage, improverSessionId>>
     ELSE   LET g == getOrCreateSessionId(storage, generateSessionId)
            IN /\ improverSessionId' = g.id
               /\ storage' = g.storage
               /\ StartCapture
               /\ initResult' = g.id
               /\ epoch' = Returned(epoch, g.id, TRUE)
  /\ UNCHANGED <<sanitizerVars, readVars, envVars, rrweb, loader, sessionId, emitted,
                 recordedIn, events, sendLog,
                 status, queueAtSend, recordings, storeVars>>

\* Mutant of stop: the timer is cleared as well.
stop_teardown ==
  /\ script = "recorder" /\ loader = "done"
  /\ IF stopFn # null
     THEN /\ recorders' = recorders \ {stopFn} /\ stopFn' = null
          /\ timers' = timers \ {flushTimer} /\ flushTimer' = null
     ELSE UNCHANGED <<recorders, stopFn, timers, flushTimer>>
  /\ UNCHANGED <<sanitizerVars, readVars, envVars, rrweb, loader, listeners,
                 initialized, idVars, emitted, recordedIn, queueVars, recordings,
                 storeVars>>

\* recorder, ImproverRecorder.stop()
stop ==
  /\ script = "recorder" /\ loader = "done"
  /\ IF stopFn # null
     THEN recorders' = recorders \ {stopFn} /\ stopFn' = null
     ELSE UNCHANGED <<recorders, stopFn>>
  /\ UNCHANGED <<sanitizerVars, readVars, envVars, rrweb, loader, flushTimer, timers,
                 listeners,
                 initialized, idVars, emitted, recordedIn, queueVars, recordings,
                 storeVars>>

\* recorder, ImproverRecorder.forceStop()
forceStop(cap) ==
  /\ script = "recorder" /\ loader = "done"
  /\ Cardinality(ListenersOf("visibilitychange")) <= MaxTeardowns
  /\ IF stopFn # null
     THEN recorders' = recorders \ {stopFn} /\ stopFn' = null
     ELSE UNCHANGED <<recorders, stopFn>>
  /\ IF flushTimer # null
     THEN timers' = timers \ {flushTimer} /\ flushTimer' = null
     ELSE UNCHANGED <<timers, flushTimer>>
  /\ \E ok \in BOOLEAN :
       LET q == sendEvents(Q, ok)
       IN SetQ([q EXCEPT !.epoch.closed = TRUE], cap)
  /\ initialized' = FALSE
  /\ storage' = null
  /\ UNCHANGED <<sanitizerVars, readVars, envVars, rrweb, loader, listeners, sessionId,
                 improverSessionId, initResult, emitted, recordedIn, recordings, storeVars>>

\* The capture source produces an event: every capturing recorder calls emit.
\* limit bounds the events of a behaviour.
EmitUpTo(limit, cap) ==
  /\ recorders # {}
  /\ emitted < limit
  /\ emitted' = emitted + 1
  /\ recordedIn' = Append(recordedIn, PayloadSessionId)
  /\ \E oks \in Oks(Cardinality(recorders)) :
       SetQ(EmitTimes(Q, emitted + 1, Cardinality(recorders), oks), cap)
  /\ UNCHANGED <<sanitizerVars, readVars, envVars, rrweb, loader, captureVars, idVars,
                 recordings,
                 storeVars>>

Emit(cap) == EmitUpTo(MaxEvents, cap)

\* setInterval(sendEvents, FLUSH_INTERVAL): a running timer fires.
TimerFires(cap) ==
  /\ \E t \in timers : \E ok \in BOOLEAN : SetQ(sendEvents(Q, ok), cap)
  /\ UNCHANGED <<sanitizerVars, readVars, envVars, rrweb, loader, captureVars, idVars,
                 emitted, recordedIn,
                 recordings, storeVars>>

\* The page fires beforeunload or pagehide: every listener of that type runs.
PageSignal(cap) ==
  /\ \E type \in {"beforeunload", "pagehide"} :
       LET n == Cardinality(ListenersOf(type))
       IN /\ n > 0
          /\ \E oks \in Oks(n) : SetQ(SendTimes(Q, n, oks), cap)
  /\ UNCHANGED <<sanitizerVars, readVars, envVars, rrweb, loader, captureVars, idVars,
                 emitted, recordedIn,
                 recordings, storeVars>>

\* The page fires visibilitychange: every closure runs and calls sendEvents()
\* when document.visibilityState is 'hidden'.
VisibilityChange(cap) ==
  /\ \E hidden \in BOOLEAN :
       LET n == Cardinality(ListenersOf("visibilitychange"))
       IN /\ n > 0
          /\ \E oks \in Oks(n) : SetQ(SendTimes(Q, IF hidden THEN n ELSE 0, oks), cap)
  /\ UNCHANGED <<sanitizerVars, readVars, envVars, rrweb, loader, captureVars, idVars,
                 emitted, recordedIn,
                 recordings, storeVars>>

\* ------------------------------------------------------------- store
\* ctx.db.query("recordings").withIndex("by_sessionId", eq(sessionId)): the
\* positions of the matching documents, oldest first.
by_sessionId(db, sid) == {i \in DOMAIN db : db[i].sessionId = sid}

\* .first(): the position of the first match, null when there is none.
first(db, sid) ==
  IF by_sessionId(db, sid) = {} THEN null ELSE Min(by_sessionId(db, sid))

\* What a handler's query saw: the position of `existing` and the matching
\* documents as they were.
ReadSet(db, sid) ==
  [existing |-> first(db, sid),
   docs |-> [i \in by_sessionId(db, sid) |-> db[i]]]

\* Mutant of createWrite: the query's result is ignored, a document is inserted.
createWrite_insert(db, args, read) ==
  [db |-> Append(db, [sessionId |-> args.sessionId,
                      events |-> args.events, analyzed |-> FALSE]),
   outcome |-> "ok", id |-> Len(db) + 1]

\* create's handler after its query: patch the existing document or insert.
createWrite(db, args, read) ==
  IF read.existing # null
  THEN [db |-> [db EXCEPT ![read.existing].events =
                             read.docs[read.existing].events \o args.events],
        outcome |-> "ok", id |-> read.existing]
  ELSE [db |-> Append(db, [sessionId |-> args.sessionId,
                           events |-> args.events, analyzed |-> FALSE]),
        outcome |-> "ok", id |-> Len(db) + 1]

\* Mutant of appendEventsWrite: a missing record is created instead of thrown on.
appendEventsWrite_upsert(db, args, read) ==
  IF read.existing = null
  THEN [db |-> Append(db, [sessionId |-> args.sessionId,
                           events |-> args.events, analyzed |-> FALSE]),
        outcome |-> "ok", id |-> Len(db) + 1]
  ELSE [db |-> [db EXCEPT ![read.existing].events =
                             read.docs[read.existing].events \o args.events],
        outcome |-> "ok", id |-> read.existing]

\* appendEvents' handler after its query: throw, or patch.
appendEventsWrite(db, args, read) ==
  IF read.existing = null
  THEN [db |-> db, outcome |-> "NotFound", id |-> null]
  ELSE [db |-> [db EXCEPT ![read.existing].events =
                             read.docs[read.existing].events \o args.events],
        outcome |-> "ok", id |-> read.existing]

HandlerWrite(db, op, args, read) ==
  IF op = "create" THEN createWrite(db, args, read)
  ELSE appendEventsWrite(db, args, read)

\* Mutant of Validates: the writes are applied whatever happened since the read.
Validates_never_checked(db, t) == TRUE

\* A mutation is a transaction: it commits only if what its queries read is
\* still what the table holds, and is run again otherwise.
Validates(db, t) == ReadSet(db, t.args.sessionId) = t.read

\* A whole run of the create mutation with nothing in between.
create(db, args) == createWrite(db, args, ReadSet(db, args.sessionId))

\* What can throw inside the handler's try block: nothing, request.json() with
\* the destructuring of its result, or the create mutation.
Throws == {"none", "json", "mutation"}

\* !v for a session id: a missing property, null and '' are falsy.
Falsy(v) == v \in {undefined, null, emptyString}

\* Mutant of MissingFields: the body is passed on unchecked.
MissingFields_unchecked(keys, body) == FALSE

\* if (!sessionId || !events): an array is truthy, also an empty one.
MissingFields(keys, body) ==
  \/ "sessionId" \notin keys \/ Falsy(body.sessionId)
  \/ "events" \notin keys

\* POST /api/recordings/ingest with a body that has the properties keys.
\* ran: how often ctx.runMutation(api.recordings.create) was called.
ingest(db, keys, body, throws) ==
  IF throws = "json"
  THEN [code |-> 500, db |-> db, ran |-> 0, threw |-> "json"]
  ELSE IF MissingFields(keys, body)
  THEN [code |-> 400, db |-> db, ran |-> 0, threw |-> "none"]
  ELSE IF throws = "mutation"
  THEN [code |-> 500, db |-> db, ran |-> 1, threw |-> "mutation"]
  ELSE [code |-> 200, ran |-> 1, threw |-> "none",
        db |-> create(db, [sessionId |-> body.sessionId,
                           events |-> body.events]).db]

\* ----------------------------------------------------------- network
InFlight == {i \in DOMAIN status : status[i] \in {"sent", "ok", "err"}}

SetStatus(i, st) == status' = [status EXCEPT ![i] = st]

\* The request reaches the server and the ingest handler runs.
Ingest ==
  /\ \E i \in DOMAIN status : \E throws \in Throws :
       /\ status[i] = "sent"
       /\ LET r == ingest(recordings, {"sessionId", "events"}, sendLog[i], throws)
          IN /\ recordings' = r.db
             /\ SetStatus(i, IF r.code = 200 THEN "ok" ELSE "err")
  /\ UNCHANGED <<sanitizerVars, readVars, envVars, rrweb, loader, captureVars, idVars,
                 emitted, recordedIn, events,
                 sendLog, queueAtSend, epoch, storeVars>>

\* What the client does when the response of request i arrives.
\*   recorder: !response.ok puts the batch back.
\*   autoloader, fetch: there is no then-branch, a response of any status is ignored.
\*   autoloader, beacon: the page never sees the response.
OnResponse(i) ==
  IF status[i] = "ok"
  THEN [events |-> events, status |-> "delivered"]
  ELSE IF script = "recorder"
  THEN [events |-> Requeue(events, sendLog[i].events), status |-> "failed"]
  ELSE IF sendLog[i].via = "fetch"
  THEN [events |-> events, status |-> "rejected"]
  ELSE [events |-> events, status |-> "lost"]

Response ==
  /\ \E i \in DOMAIN status :
       /\ status[i] \in {"ok", "err"}
       /\ events' = OnResponse(i).events
       /\ SetStatus(i, OnResponse(i).status)
  /\ UNCHANGED <<sanitizerVars, readVars, envVars, rrweb, loader, captureVars, idVars,
                 emitted, recordedIn,
                 sendLog, queueAtSend, epoch, recordings, storeVars>>

\* What the client does when request i ends in a network error.
\*   fetch: the promise rejects (catch), the batch is put back, whether or not
\*   the server had already stored it ("unacked").
\*   beacon: a queued beacon that never arrives is lost without a trace.
OnNetworkError(i) ==
  IF sendLog[i].via = "fetch"
  THEN [events |-> Requeue(events, sendLog[i].events),
        status |-> IF status[i] = "ok" THEN "unacked" ELSE "failed"]
  ELSE [events |-> events, status |-> "lost"]

NetworkError ==
  /\ \E i \in DOMAIN status :
       /\ status[i] \in (IF sendLog[i].via = "fetch" THEN {"sent", "ok", "err"}
                         ELSE {"sent"})
       /\ events' = OnNetworkError(i).events
       /\ SetStatus(i, OnNetworkError(i).status)
  /\ UNCHANGED <<sanitizerVars, readVars, envVars, rrweb, loader, captureVars, idVars,
                 emitted, recordedIn,
                 sendLog, queueAtSend, epoch, recordings, storeVars>>

\* ------------------------------------------------------ specification
InitCapture ==
  /\ script \in {"recorder", "autoloader"}
  /\ sendBeacon \in (IF script = "autoloader" THEN BOOLEAN ELSE {TRUE})
  /\ rrweb \in BOOLEAN
  /\ loader = "none"
  /\ storage \in (IF script = "autoloader" THEN {null, 1} ELSE {null})
  /\ events = <<>>
  /\ stopFn = null
  /\ flushTimer = null
  /\ initialized = FALSE
  /\ sessionId = null
  /\ improverSessionId = null
  /\ initResult = null
  /\ recorders = {}
  /\ timers = {}
  /\ listeners = {}
  /\ emitted = 0
  /\ recordedIn = <<>>
  /\ sendLog = <<>>
  /\ status = <<>>
  /\ queueAtSend = <<>>
  /\ epoch = [ids |-> {}, starts |-> 0, closed |-> FALSE]
  /\ recordings = <<>>
  /\ txns = {}
  /\ calls = 0
  /\ results = <<>>

\* fetchSnapshots has not been called.
InitFetchIdle ==
  /\ apiKey = FALSE
  /\ manifest = [outcome |-> "exception", shape |-> "other", sources |-> <<>>,
                 windows |-> <<>>, events |-> <<>>]
  /\ upstream = [shape |-> "tuple", flaw |-> "none"]
  /\ pc = "threw"
  /\ blobKeys = <<>>
  /\ cursor = 0
  /\ allEvents = <<>>
  /\ requests = <<>>
  /\ returned = <<>>

\* No SessionReplay page is mounted.
InitViewIdle ==
  /\ session = "undefined"
  /\ snapshots = [set |-> FALSE, events |-> <<>>]
  /\ loadingSnapshots = FALSE
  /\ error = ""
  /\ playerInstance = [set |-> FALSE, events |-> <<>>]
  /\ playerImport = "idle"
  /\ fetchCall = "unmounted"

\* The sanitizer has not been called.
InitSanitizerIdle ==
  /\ payload = <<>>
  /\ sanitized = [set |-> FALSE, root |-> null, nodes |-> {}]

Init == InitCapture /\ InitFetchIdle /\ InitViewIdle /\ InitSanitizerIdle

\* One step of the system; cap bounds the transport calls of a behaviour.
Step(cap) ==
  \/ Evaluate
  \/ RrwebLoaded
  \/ RrwebLoadError
  \/ init
  \/ stop
  \/ forceStop(cap)
  \/ Emit(cap)
  \/ TimerFires(cap)
  \/ PageSignal(cap)
  \/ VisibilityChange(cap)
  \/ Ingest
  \/ Response
  \/ NetworkError

Next == Step(MaxSends)

Spec == Init /\ [][Next]_vars

\* The same system with room for one more transport call (a retry of every batch).
NextRetry == Step(MaxSends + 1)

SpecRetry == Init /\ [][NextRetry]_vars

\* ------------------------------------------- mutations called concurrently
\* The events of the k-th mutation call: n events no other call carries.
Payload(k, n) == [i \in 1..n |-> 2 * (k - 1) + i]

PayloadSizes == {1, 2}

\* A client of the store calls create or appendEvents: the handler starts and
\* its query reads the table. A handler that throws on what it read ends the
\* call there; otherwise its writes wait for the commit.
Call ==
  /\ calls < MaxCalls
  /\ calls' = calls + 1
  /\ \E op \in {"create", "appendEvents"} : \E sid \in SessionIds :
     \E n \in PayloadSizes :
       LET t == [call |-> calls + 1, op |-> op,
                 args |-> [sessionId |-> sid, events |-> Payload(calls + 1, n)],
                 read |-> ReadSet(recordings, sid), attempts |-> 1]
           w == HandlerWrite(recordings, t.op, t.args, t.read)
       IN IF w.outcome # "ok"
          THEN /\ results' = Append(results,
                    [call |-> t.call, op |-> t.op, args |-> t.args,
                     outcome |-> w.outcome, attempts |-> t.attempts])
               /\ UNCHANGED txns
          ELSE /\ txns' = txns \cup {t}
               /\ UNCHANGED results
  /\ UNCHANGED <<sanitizerVars, readVars, clientVars, recordings>>

\* The transaction commits: the reads are still valid and the writes are applied.
Commit ==
  /\ \E t \in txns :
       /\ Validates(recordings, t)
       /\ LET w == HandlerWrite(recordings, t.op, t.args, t.read)
          IN /\ recordings' = w.db
             /\ results' = Append(results,
                  [call |-> t.call, op |-> t.op, args |-> t.args,
                   outcome |-> w.outcome, attempts |-> t.attempts])
       /\ txns' = txns \ {t}
  /\ UNCHANGED <<sanitizerVars, readVars, clientVars, calls>>

\* A handler whose reads another commit has overwritten is run again.
Retry ==
  /\ \E t \in txns :
       /\ ~Validates(recordings, t)
       /\ LET again == [t EXCEPT !.read = ReadSet(recordings, t.args.sessionId),
                                 !.attempts = @ + 1]
              w == HandlerWrite(recordings, again.op, again.args, again.read)
          IN IF w.outcome # "ok"
             THEN /\ results' = Append(results,
                       [call |-> t.call, op |-> t.op, args |-> t.args,
                        outcome |-> w.outcome, attempts |-> again.attempts])
                  /\ txns' = txns \ {t}
             ELSE /\ txns' = (txns \ {t}) \cup {again}
                  /\ UNCHANGED results
  /\ UNCHANGED <<sanitizerVars, readVars, clientVars, recordings, calls>>

InitStore ==
  /\ Init
  /\ script = "recorder"
  /\ rrweb = FALSE

NextStore ==
  \/ Call
  \/ Commit
  \/ Retry

SpecStore == InitStore /\ [][NextStore]_vars

\* ------------------------------------------------- events on the wire
\* A JSON value that is a number is modelled by a natural number; the value of
\* a property the object does not have is undefined, a string is aString.

\* typeof v === 'number'
typeof_number(v) == v >= 0

\* Event objects as a sender may serialise them: a full snapshot, and two
\* malformed ones ({"type":"x","timestamp":2} and {"type":3}).
WireEvents ==
  {[type |-> 2, timestamp |-> 1],
   [type |-> aString, timestamp |-> 2],
   [type |-> 3, timestamp |-> undefined]}

BatchLengths == {1, 2}

EventBatches == UNION {[1..n -> WireEvents] : n \in BatchLengths}

\* ------------------------------------------------------ ingest requests
MaxRequests == 2

\* The bodies a client can post: any of the two properties may be missing, the
\* session id may be null or '', the events may be an empty array.
Bodies ==
  {[keys |-> k,
    sessionId |-> IF "sessionId" \in k THEN sid ELSE undefined,
    events |-> IF "events" \in k THEN batch ELSE <<>>] :
     k \in SUBSET {"sessionId", "events"},
     sid \in SessionIds \cup {null, emptyString},
     batch \in EventBatches \cup {<<>>}}

\* A client posts a body to /api/recordings/ingest and the handler runs to its
\* response.
IngestRequest ==
  /\ calls < MaxRequests
  /\ calls' = calls + 1
  /\ \E body \in Bodies : \E throws \in Throws :
       LET r == ingest(recordings, body.keys, body, throws)
       IN /\ recordings' = r.db
          /\ results' = Append(results, [code |-> r.code, ran |-> r.ran,
                                         threw |-> r.threw, keys |-> body.keys,
                                         sessionId |-> body.sessionId])
  /\ UNCHANGED <<sanitizerVars, readVars, clientVars, txns>>

InitIngest == InitStore

NextIngest == IngestRequest

SpecIngest == InitIngest /\ [][NextIngest]_vars

\* ------------------------------------------------ fetchSnapshots: data
CHUNK_SIZE == 20

\* chunks the recording service holds, sources of a short manifest, and blob_v2
\* sources of a long one
MaxChunk == 2
MaxSources == 2
MaxKeys == 45

\* A decimal string is the sequence of its digits.
RECURSIVE toDecimal(_)
toDecimal(n) == IF n < 10 THEN <<n>> ELSE Append(toDecimal(n \div 10), n % 10)

\* parseInt(str, 10)
RECURSIVE parseInt(_)
parseInt(str) ==
  IF Len(str) = 0 THEN 0
  ELSE 10 * parseInt(SubSeq(str, 1, Len(str) - 1)) + str[Len(str)]

\* Array.prototype.sort with a comparator that compares the items' keys, which
\* is stable: item i goes to the position given by the number of items that
\* come before it.
SortBy(arr, key) ==
  LET pos(i) == 1 + Cardinality({j \in DOMAIN arr :
                     key[j] < key[i] \/ (key[j] = key[i] /\ j < i)})
  IN [p \in DOMAIN arr |-> arr[CHOOSE i \in DOMAIN arr : pos(i) = p]]

\* The place of a decimal string of up to three digits in the order of sort()
\* without a comparator (strings by code unit): "1" < "10" < "9".
StringRank(str) ==
  LET d(p) == IF p <= Len(str) THEN str[p] + 1 ELSE 0
  IN 121 * d(1) + 11 * d(2) + d(3)

\* Mutant of sortKeys: sort() without a comparator.
sortKeys_default(keys) ==
  SortBy(keys, [i \in DOMAIN keys |-> StringRank(toDecimal(keys[i]))])

\* blobKeys.sort((a, b) => a - b)
sortKeys(keys) == SortBy(keys, keys)

\* a.timestamp || 0
OrZero(v) == IF v = undefined \/ v = 0 THEN 0 ELSE v

\* allEvents.sort((a, b) => (a.timestamp || 0) - (b.timestamp || 0))
sortByTimestamp(evs) ==
  SortBy(evs, [i \in DOMAIN evs |-> OrZero(evs[i].timestamp)])

\* The event of chunk k as it was recorded. id is the identity of the event at
\* the recording service, not a property of the JSON object. Chunk 1 holds the
\* later event, so that key order is not time order.
UpstreamEvent(k) ==
  [id |-> k, type |-> IF k = MaxChunk THEN 2 ELSE 3,
   timestamp |-> MaxChunk + 1 - k]

\* Chunk 1 is the one the service may serialise badly.
Flaws == {"none", "no_type", "no_timestamp", "type_x", "not_json"}

Flawed(e, flaw) ==
  IF e.id # 1 \/ flaw \in {"none", "not_json"} THEN e
  ELSE IF flaw = "no_type" THEN [e EXCEPT !.type = undefined]
  ELSE IF flaw = "no_timestamp" THEN [e EXCEPT !.timestamp = undefined]
  ELSE [e EXCEPT !.type = aString, !.timestamp = undefined]

\* The event of chunk k as the service sends it.
Sent(k) == Flawed(UpstreamEvent(k), upstream.flaw)

\* One line of an NDJSON body, by what JSON.parse makes of it:
\*   "not_json"  JSON.parse throws
\*   "tuple"     ["w1", event]
\*   "tuple_n"   [1, event]: the first element is not a string
\*   "object"    {"window_id": "w1", "data": [event, ...]}
\*   "bare"      event
LineShapes == {"tuple", "tuple_n", "object", "bare"}

Line(shape, evs) == [shape |-> shape, events |-> evs]

\* The body of a non-OK response: {"type":"server_error","detail":".."}
ErrorBody == <<Line("bare", <<[id |-> 0, type |-> aString, timestamp |-> undefined]>>)>>

\* The NDJSON body for the keys lo..hi: one line per chunk held, in key order.
ChunkText(lo, hi) ==
  LET a == IF lo < 1 THEN 1 ELSE lo
      b == IF hi > MaxChunk THEN MaxChunk ELSE hi
      line(k) == IF k = 1 /\ upstream.flaw = "not_json" THEN Line("not_json", <<>>)
                 ELSE Line(upstream.shape, <<Sent(k)>>)
  IN IF a > b THEN <<>> ELSE [j \in 1..(b - a + 1) |-> line(a + j - 1)]

\* text.trim().split('\n'): an empty text is one empty line.
split(text) == IF text = <<>> THEN <<Line("empty", <<>>)>> ELSE text

\* isValidEvent of the tuple branch
isValidEvent(event) == typeof_number(event.type) /\ typeof_number(event.timestamp)

\* The body of `for (const line of lines)`: the events one line adds.
parseLine(line) ==
  IF line.shape \in {"empty", "not_json"} THEN <<>>
  ELSE IF line.shape = "tuple" THEN SelectSeq(line.events, isValidEvent)
  ELSE IF line.shape = "object"
  THEN SelectSeq(line.events, LAMBDA event : event.type # undefined)
  ELSE IF line.shape = "bare"
  THEN SelectSeq(line.events, LAMBDA parsed : parsed.type # undefined)
  ELSE <<>>

RECURSIVE parseLines(_)
parseLines(lines) ==
  IF lines = <<>> THEN <<>>
  ELSE parseLine(Head(lines)) \o parseLines(Tail(lines))

\* --------------------------------------------- fetchSnapshots: requests
\* How a request to the recording service ends: a response with an OK status,
\* a response with another status, or fetch() rejects.
Outcomes == {"ok", "status", "exception"}

\* Mutant of blobOk: the status of the response is not looked at.
blobOk_ignored(outcome) == TRUE

\* blobResponse.ok
blobOk(outcome) == outcome = "ok"

\* The blob_v2 request for start_blob_key=lo, end_blob_key=hi: the events the
\* try block adds to allEvents.
windowEvents(lo, hi, outcome) ==
  IF outcome = "exception" THEN <<>>
  ELSE IF blobOk(outcome)
  THEN parseLines(split(IF outcome = "ok" THEN ChunkText(lo, hi) ELSE ErrorBody))
  ELSE <<>>

\* The JSON bodies of a legacy blob response: a flat array of events, an object
\* with snapshot_data_by_window_id, or another object.
BlobBodies == {"array", "by_window", "other"}

\* The legacy request for blob_key=key: the events the try block adds to
\* allEvents. A body that is not JSON makes blobResponse.json() throw, which
\* the catch swallows.
blobEvents(key, outcome, body) ==
  IF outcome = "exception" THEN <<>>
  ELSE IF blobOk(outcome)
  THEN IF outcome # "ok" \/ body = "other" \/ key \notin 1..MaxChunk THEN <<>>
       ELSE IF key = 1 /\ upstream.flaw = "not_json" THEN <<>>
       ELSE <<Sent(key)>>
  ELSE <<>>

\* data.sources.filter(s => s.source === name)
filterSources(sources, name) == SelectSeq(sources, LAMBDA s : s.source = name)

\* Mutant of manifestThrows: a failed manifest request is treated as no data.
manifestThrows_never(key, m) == FALSE

\* fetchSnapshots up to `const data = await response.json()`: whether it throws
\* (no API key, fetch() rejects, or !response.ok).
manifestThrows(key, m) == ~key \/ m.outcome # "ok"

RECURSIVE concat(_)
concat(lists) == IF lists = <<>> THEN <<>> ELSE Head(lists) \o concat(Tail(lists))

\* fetchSnapshots from its start to the first chunk request or, where there is
\* none, to its end.
Start ==
  /\ pc = "start"
  /\ IF manifestThrows(apiKey, manifest)
     THEN /\ pc' = "threw"
          /\ UNCHANGED <<blobKeys, returned>>
     ELSE IF manifest.shape = "sources" /\ Len(manifest.sources) > 0
     THEN LET blobV2Sources == filterSources(manifest.sources, "blob_v2")
              keys == sortKeys([j \in DOMAIN blobV2Sources |->
                                  parseInt(blobV2Sources[j].blob_key)])
          IN /\ blobKeys' = keys
             /\ pc' = IF Len(keys) > 0 THEN "blob_v2" ELSE "blob"
             /\ UNCHANGED returned
     ELSE /\ pc' = "returned"
          /\ returned' = IF manifest.shape = "windows"
                         THEN sortByTimestamp(concat(manifest.windows))
                         ELSE IF manifest.shape = "array" THEN manifest.events
                         ELSE <<>>
          /\ UNCHANGED blobKeys
  /\ UNCHANGED <<apiKey, manifest, upstream, cursor, allEvents, requests,
                 viewVars, clientVars, recordings, storeVars,
                 sanitizerVars>>

\* One iteration of the blob_v2 loop.
FetchWindow ==
  /\ pc = "blob_v2"
  /\ cursor < Len(blobKeys)
  /\ \E outcome \in Outcomes :
       LET chunkKeys == SubSeq(blobKeys, cursor + 1,
                               Min({cursor + CHUNK_SIZE, Len(blobKeys)}))
           minKey == chunkKeys[1]
           maxKey == chunkKeys[Len(chunkKeys)]
           added == windowEvents(minKey, maxKey, outcome)
       IN /\ allEvents' = allEvents \o added
          /\ requests' = Append(requests,
               [source |-> "blob_v2", start |-> minKey, end |-> maxKey,
                outcome |-> outcome, added |-> added])
  /\ IF cursor + CHUNK_SIZE < Len(blobKeys)
     THEN cursor' = cursor + CHUNK_SIZE /\ UNCHANGED pc
     ELSE cursor' = 0 /\ pc' = "blob"
  /\ UNCHANGED <<apiKey, manifest, upstream, blobKeys, returned,
                 viewVars, clientVars, recordings, storeVars,
                 sanitizerVars>>

\* One iteration of the legacy blob loop.
FetchBlob ==
  /\ pc = "blob"
  /\ cursor < Len(filterSources(manifest.sources, "blob"))
  /\ \E outcome \in Outcomes :
     \E body \in (IF outcome = "ok" THEN BlobBodies ELSE {"other"}) :
       LET source == filterSources(manifest.sources, "blob")[cursor + 1]
           key == parseInt(source.blob_key)
           added == blobEvents(key, outcome, body)
       IN /\ allEvents' = allEvents \o added
          /\ requests' = Append(requests,
               [source |-> "blob", start |-> key, end |-> key,
                outcome |-> outcome, added |-> added])
  /\ cursor' = cursor + 1
  /\ UNCHANGED <<apiKey, manifest, upstream, pc, blobKeys, returned,
                 viewVars, clientVars, recordings, storeVars,
                 sanitizerVars>>

\* After the loops: sort and return.
SortAndReturn ==
  /\ pc = "blob"
  /\ cursor >= Len(filterSources(manifest.sources, "blob"))
  /\ returned' = sortByTimestamp(allEvents)
  /\ pc' = "returned"
  /\ UNCHANGED <<apiKey, manifest, upstream, blobKeys, cursor, allEvents,
                 requests, viewVars, clientVars, recordings, storeVars,
                 sanitizerVars>>

\* ------------------------------------------------ fetchSnapshots: inputs
Manifest(outcome, shape, sources, windows, evs) ==
  [outcome |-> outcome, shape |-> shape, sources |-> sources,
   windows |-> windows, events |-> evs]

BlobKeyStrings == {toDecimal(k) : k \in 1..MaxChunk}

ShortSources ==
  UNION {[1..n -> [source : {"blob_v2", "blob"}, blob_key : BlobKeyStrings]] :
           n \in 0..MaxSources}

\* n blob_v2 sources listed from the newest to the oldest, the keys consecutive
\* (stride 1) or every other one (stride 2).
LongSources ==
  {[j \in 1..n |-> [source |-> "blob_v2", blob_key |-> toDecimal(stride * (n + 1 - j))]] :
     n \in (MaxSources + 1)..MaxKeys, stride \in {1, 2}}

InlineLists == UNION {[1..n -> {UpstreamEvent(k) : k \in 1..MaxChunk}] : n \in 0..2}

Manifests ==
  {Manifest("ok", "sources", ss, <<>>, <<>>) : ss \in ShortSources \cup LongSources}
    \cup {Manifest("ok", "windows", <<>>, ws, <<>>) :
            ws \in UNION {[1..n -> InlineLists] : n \in 1..2}}
    \cup {Manifest("ok", "array", <<>>, <<>>, evs) : evs \in InlineLists}
    \cup {Manifest(o, "other", <<>>, <<>>, <<>>) : o \in Outcomes}

PlainUpstream == [shape |-> "tuple", flaw |-> "none"]

Upstreams == [shape : LineShapes, flaw : Flaws]

InitFetch ==
  /\ InitCapture
  /\ InitSanitizerIdle
  /\ script = "recorder"
  /\ rrweb = FALSE
  /\ InitViewIdle
  /\ manifest \in Manifests
  /\ apiKey \in (IF manifest.shape = "other" THEN BOOLEAN ELSE {TRUE})
  /\ upstream \in (IF manifest.sources \in ShortSources /\ manifest.sources # <<>>
                   THEN Upstreams ELSE {PlainUpstream})
  /\ pc = "start"
  /\ blobKeys = <<>>
  /\ cursor = 0
  /\ allEvents = <<>>
  /\ requests = <<>>
  /\ returned = <<>>

NextFetch ==
  \/ Start
  \/ FetchWindow
  \/ FetchBlob
  \/ SortAndReturn

SpecFetch == InitFetch /\ [][NextFetch]_vars

\* ------------------------------------------------------- SessionReplay
MaxSnapshots == 2

\* Event objects fetchSnapshots may hand to the page: a full snapshot, an
\* incremental snapshot, the two without a timestamp, and {"type":"x","timestamp":2}.
ViewEvents ==
  {[type |-> 2, timestamp |-> 1], [type |-> 3, timestamp |-> 2],
   [type |-> 2, timestamp |-> undefined], [type |-> 3, timestamp |-> undefined],
   [type |-> aString, timestamp |-> 2]}

SnapshotLists == UNION {[1..n -> ViewEvents] : n \in 0..MaxSnapshots}

\* The player section of the render: which of the four branches is shown.
PlayerSection ==
  IF loadingSnapshots THEN "loading"
  ELSE IF error # "" THEN "error"
  ELSE IF snapshots.set /\ Len(snapshots.events) > 0 THEN "player"
  ELSE "noRecording"

\* What the component renders.
View ==
  IF session = "undefined" THEN "pageLoading"
  ELSE IF session = "null" THEN "notFound"
  ELSE PlayerSection

\* snapshots.some(e => e && e.type === 2)
hasFullSnapshot(evs) == \E i \in DOMAIN evs : evs[i].type = 2

\* snapshots.filter(e => e && typeof e.type === 'number' && typeof e.timestamp === 'number')
validEvents(evs) ==
  SelectSeq(evs, LAMBDA e : typeof_number(e.type) /\ typeof_number(e.timestamp))

\* useQuery(getByPosthogId) delivers its result.
SessionResult ==
  /\ fetchCall # "unmounted"
  /\ session = "undefined"
  /\ session' \in {"loaded", "null"}
  /\ UNCHANGED <<snapshots, loadingSnapshots, error, playerInstance, playerImport,
                 fetchCall, fetchVars, clientVars, recordings, storeVars,
                 sanitizerVars>>

\* The first effect: call fetchSnapshots.
FetchEffect ==
  /\ fetchCall = "idle"
  /\ session = "loaded"
  /\ ~snapshots.set
  /\ ~loadingSnapshots
  /\ loadingSnapshots' = TRUE
  /\ fetchCall' = "pending"
  /\ UNCHANGED <<session, snapshots, error, playerInstance, playerImport,
                 fetchVars, clientVars, recordings, storeVars,
                 sanitizerVars>>

\* fetchSnapshots resolves with an array: then and finally, rendered together.
FetchResolved ==
  /\ fetchCall = "pending"
  /\ \E data \in SnapshotLists : snapshots' = [set |-> TRUE, events |-> data]
  /\ loadingSnapshots' = FALSE
  /\ fetchCall' = "resolved"
  /\ UNCHANGED <<session, error, playerInstance, playerImport,
                 fetchVars, clientVars, recordings, storeVars,
                 sanitizerVars>>

\* fetchSnapshots rejects: catch and finally.
FetchRejected ==
  /\ fetchCall = "pending"
  /\ error' = "Failed to load session recording"
  /\ snapshots' = [set |-> TRUE, events |-> <<>>]
  /\ loadingSnapshots' = FALSE
  /\ fetchCall' = "rejected"
  /\ UNCHANGED <<session, playerInstance, playerImport,
                 fetchVars, clientVars, recordings, storeVars,
                 sanitizerVars>>

\* The second effect, run after the render that shows the player element
\* (playerRef.current is set only in that branch): import the player.
PlayerEffect ==
  /\ snapshots.set
  /\ Len(snapshots.events) > 0
  /\ View = "player"
  /\ ~playerInstance.set
  /\ playerImport = "idle"
  /\ playerImport' = "pending"
  /\ UNCHANGED <<session, snapshots, loadingSnapshots, error, playerInstance,
                 fetchCall, fetchVars, clientVars, recordings, storeVars,
                 sanitizerVars>>

\* import('rrweb-player') resolves; throws: new rrwebPlayer(...) throws.
ImportResolved ==
  /\ playerImport = "pending"
  /\ \E throws \in BOOLEAN :
       IF ~hasFullSnapshot(snapshots.events)
       THEN /\ error' = "Recording data incomplete - missing full snapshot"
            /\ playerImport' = "resolved"
            /\ UNCHANGED playerInstance
       ELSE IF throws
       THEN /\ error' = "Failed to initialize session player"
            /\ playerImport' = "threw"
            /\ UNCHANGED playerInstance
       ELSE /\ playerInstance' = [set |-> TRUE, events |-> validEvents(snapshots.events)]
            /\ playerImport' = "resolved"
            /\ UNCHANGED error
  /\ UNCHANGED <<session, snapshots, loadingSnapshots, fetchCall,
                 fetchVars, clientVars, recordings, storeVars,
                 sanitizerVars>>

\* import('rrweb-player') rejects.
ImportRejected ==
  /\ playerImport = "pending"
  /\ error' = "Failed to load replay player"
  /\ playerImport' = "rejected"
  /\ UNCHANGED <<session, snapshots, loadingSnapshots, playerInstance, fetchCall,
                 fetchVars, clientVars, recordings, storeVars,
                 sanitizerVars>>

\* The page has just been mounted.
InitReplay ==
  /\ InitCapture
  /\ InitSanitizerIdle
  /\ script = "recorder"
  /\ rrweb = FALSE
  /\ InitFetchIdle
  /\ session = "undefined"
  /\ snapshots = [set |-> FALSE, events |-> <<>>]
  /\ loadingSnapshots = FALSE
  /\ error = ""
  /\ playerInstance = [set |-> FALSE, events |-> <<>>]
  /\ playerImport = "idle"
  /\ fetchCall = "idle"

NextReplay ==
  \/ SessionResult
  \/ FetchEffect
  \/ FetchResolved
  \/ FetchRejected
  \/ PlayerEffect
  \/ ImportResolved
  \/ ImportRejected

SpecReplay == InitReplay /\ [][NextReplay]_vars

\* ===================================================================
\* Properties
\* ===================================================================
BatchEvents(i) == Range(sendLog[i].events)

CallsWith(e) == {i \in DOMAIN sendLog : e \in BatchEvents(i)}

\* The event list the server holds for a session.
ServerEvents(sid) ==
  IF first(recordings, sid) = null THEN <<>>
  ELSE recordings[first(recordings, sid)].events

\* Every transport call that carried e: one failed (nothing stored, batch put
\* back) and one, the retry, was delivered.
FailedOnceThenDelivered(e) ==
  /\ Cardinality(CallsWith(e)) = 2
  /\ Cardinality({i \in CallsWith(e) : status[i] \in {"failed", "refused"}}) = 1
  /\ Cardinality({i \in CallsWith(e) : status[i] = "delivered"}) = 1

\* C1: at-least-once delivery without reordering. Once every event was sent in a
\* call that failed and then in one that was delivered, all under one session
\* id, and nothing is pending or in flight, the server's event list of that
\* session is the recorded events in recording order.
C1_AtLeastOnceNoReorder ==
  (/\ emitted > 0
   /\ events = <<>>
   /\ InFlight = {}
   /\ \A e \in 1..emitted : FailedOnceThenDelivered(e)
   /\ \A i \in DOMAIN sendLog : sendLog[i].sessionId = sendLog[1].sessionId)
  => ServerEvents(sendLog[1].sessionId) = [e \in 1..emitted |-> e]

\* C2: no double-send under competing flush triggers. No event is in two
\* batches that are in flight at the same time, and no event of an in-flight
\* batch is still in the pending queue, where a later trigger would send it again.
C2_NoDoubleSend ==
  /\ \A i \in InFlight : \A j \in InFlight :
       i # j => BatchEvents(i) \cap BatchEvents(j) = {}
  /\ \A i \in InFlight : BatchEvents(i) \cap Range(events) = {}

\* Two non-empty batches are in flight at once: the second trigger fired during
\* the first send.
C2_Witness ==
  \E i \in InFlight : \E j \in InFlight :
    i < j /\ sendLog[i].events # <<>> /\ sendLog[j].events # <<>>

\* A step in which a flush trigger (timer, lifecycle listener, forceStop) runs.
FlushStep ==
  \/ TimerFires(MaxSends)
  \/ PageSignal(MaxSends)
  \/ VisibilityChange(MaxSends)
  \/ forceStop(MaxSends)

\* C3: a flush on a non-empty queue makes exactly one transport call, its batch
\* is the whole queue in queue order, and the drain leaves the queue empty for
\* the events recorded afterwards; batches already handed over never change.
C3_FlushDrainsWholeQueue ==
  [][/\ (FlushStep /\ events # <<>>) =>
          /\ Len(sendLog') = Len(sendLog) + 1
          /\ sendLog'[Len(sendLog')].events = events
          /\ queueAtSend' = <<>>
     /\ SubSeq(sendLog', 1, Len(sendLog)) = sendLog]_vars

\* A flush below the size threshold has just sent two queued events in one call.
C3_Witness ==
  /\ sendLog # <<>>
  /\ sendLog[Len(sendLog)].events = <<1, 2>>
  /\ status[Len(sendLog)] = "sent"
  /\ events = <<>>

\* C4: whenever a send fails (non-OK response, network error, sendBeacon
\* returning false), the batch is put back at the head of the pending queue in
\* its original order, ahead of everything queued since the drain.
C4_FailedBatchRequeuedAtHead ==
  [][/\ \A i \in InFlight :
          status'[i] \in {"failed", "unacked", "rejected"} =>
            events' = sendLog[i].events \o events
     /\ (Len(sendLog') > Len(sendLog) /\ status'[Len(status')] = "refused") =>
          events' = sendLog'[Len(sendLog')].events \o queueAtSend']_vars

LifecycleEvents == {"beforeunload", "pagehide", "visibilitychange"}

\* C5: each of the three lifecycle listeners is registered at most once, so a
\* single signal runs sendEvents at most once per listener kind.
C5_ListenersRegisteredOnce ==
  \A type \in LifecycleEvents : Cardinality(ListenersOf(type)) <= 1

\* C6: at most one flush timer is running, and it is the one flushTimer holds.
C6_AtMostOneTimer ==
  /\ Cardinality(timers) <= 1
  /\ timers = IF flushTimer = null THEN {} ELSE {flushTimer}

\* init() has started a recorder again after a forceStop() and then again after
\* a stop(), and a timer runs.
C6_Witness ==
  /\ timers # {}
  /\ epoch.starts = 2
  /\ Cardinality(ListenersOf("visibilitychange")) = 2

\* C7: between two forceStop() calls every init() returns the same session id
\* and every batch handed to the transport carries it.
C7_SessionIdReused ==
  /\ Cardinality(epoch.ids) <= 1
  /\ (initResult # null /\ ~epoch.closed) => epoch.ids = {initResult}

\* init() returned an id twice with a stop() in between, and a batch was sent
\* under that id.
C7_Witness ==
  /\ ~epoch.closed
  /\ epoch.starts = 2
  /\ stopFn # null
  /\ \E i \in DOMAIN sendLog : sendLog[i].sessionId = initResult

\* ------------------------------------------------- store properties
\* The calls that wrote, in commit order.
Committed == SelectSeq(results, LAMBDA r : r.outcome = "ok")

\* The events of the committed calls on sid, concatenated in commit order.
RECURSIVE EventsInCommitOrder(_, _)
EventsInCommitOrder(rs, sid) ==
  IF rs = <<>> THEN <<>>
  ELSE (IF Head(rs).args.sessionId = sid THEN Head(rs).args.events ELSE <<>>)
         \o EventsInCommitOrder(Tail(rs), sid)

\* C8: idempotent session creation. There is at most one record per sessionId,
\* and its event list is the events of the calls on that id, one call after the
\* other in the order the calls took effect.
C8_OneRecordPerSession ==
  \A sid \in SessionIds :
    /\ Cardinality(by_sessionId(recordings, sid)) <= 1
    /\ ServerEvents(sid) = EventsInCommitOrder(Committed, sid)

\* create has run twice on the same sessionId.
C8_Witness ==
  \E i \in DOMAIN results : \E j \in DOMAIN results :
    /\ i < j
    /\ results[i].op = "create" /\ results[j].op = "create"
    /\ results[i].args.sessionId = results[j].args.sessionId
    /\ ServerEvents(results[i].args.sessionId)
         = results[i].args.events \o results[j].args.events

\* The appendEvents call that ends in this step, if one does.
AppendEnds(r) ==
  /\ results' = Append(results, r)
  /\ r.op = "appendEvents"

\* C9: appendEvents on a sessionId without a record ends in NotFound and leaves
\* the table as it was; on an existing record it patches that record's events
\* to the old list followed by the new events and touches nothing else.
C9_AppendNotFoundOrConcat ==
  [][\A r \in Range(results') :
       AppendEnds(r) =>
         LET sid == r.args.sessionId
             at == first(recordings, sid)
         IN IF at = null
            THEN r.outcome = "NotFound" /\ recordings' = recordings
            ELSE /\ r.outcome = "ok"
                 /\ recordings' = [recordings EXCEPT
                       ![at].events = recordings[at].events \o r.args.events]]_vars

\* An appendEvents call has ended in NotFound while the table held a record of
\* another session, and another appendEvents call has appended.
C9_Witness ==
  /\ \E i \in DOMAIN results :
       /\ results[i].op = "appendEvents" /\ results[i].outcome = "NotFound"
       /\ first(recordings, results[i].args.sessionId) = null
       /\ recordings # <<>>
  /\ \E j \in DOMAIN results :
       results[j].op = "appendEvents" /\ results[j].outcome = "ok"

\* b occurs in s as one contiguous run.
Contiguous(b, s) ==
  \E k \in 0..(Len(s) - Len(b)) : SubSeq(s, k + 1, k + Len(b)) = b

\* C10: appends are atomic per session. Whatever the overlap of the requests,
\* every batch that was written is in its session's record, whole and
\* contiguous, exactly once, and the session has exactly one record.
C10_ConcurrentAppendsKeepBothBatches ==
  \A i \in DOMAIN Committed :
    LET r == Committed[i]
        sid == r.args.sessionId
    IN /\ Cardinality(by_sessionId(recordings, sid)) = 1
       /\ Contiguous(r.args.events, ServerEvents(sid))
       /\ Len(ServerEvents(sid)) =
            Len(EventsInCommitOrder(Committed, sid))

\* Two requests for one session overlapped: the second read before the first
\* committed and had to run again, and both have written.
C10_Witness ==
  \E i \in DOMAIN Committed : \E j \in DOMAIN Committed :
    /\ i < j
    /\ Committed[i].args.sessionId = Committed[j].args.sessionId
    /\ Committed[i].op = "create" /\ Committed[j].op = "create"
    /\ Committed[j].attempts > 1

\* C11: a malformed event is never stored. After any sequence of ingest
\* requests every event of every stored recording has a numeric type and a
\* numeric timestamp.
C11_MalformedEventNeverStored ==
  \A i \in DOMAIN recordings : \A e \in Range(recordings[i].events) :
    typeof_number(e.type) /\ typeof_number(e.timestamp)

\* ------------------------------------------------------ fetchSnapshots
\* The blob_v2 keys of the manifest, as numbers, in the order listed.
ManifestKeys ==
  LET v2 == filterSources(manifest.sources, "blob_v2")
  IN [j \in DOMAIN v2 |-> parseInt(v2[j].blob_key)]

V2Requests == SelectSeq(requests, LAMBDA r : r.source = "blob_v2")

\* fetchSnapshots got a manifest that lists sources.
SourcesListed ==
  apiKey /\ manifest.outcome = "ok" /\ manifest.shape = "sources"
         /\ Len(manifest.sources) > 0

\* C12: tolerant chunk parsing. Of the lines of a blob_v2 response an event is
\* added only if its type and timestamp are both numbers (a line that is not
\* JSON, or {"type":"x"}, adds nothing), and the well-formed events of the
\* other lines, in any of the three accepted shapes, are still added.
C12_TolerantChunkParsing ==
  \A i \in DOMAIN requests :
    (requests[i].source = "blob_v2" /\ requests[i].outcome = "ok") =>
      /\ \A e \in Range(requests[i].added) :
           typeof_number(e.type) /\ typeof_number(e.timestamp)
      /\ upstream.shape \in {"tuple", "object", "bare"} =>
           \A k \in 1..MaxChunk :
             (/\ requests[i].start <= k /\ k <= requests[i].end
              /\ isValidEvent(Sent(k))
              /\ ~(k = 1 /\ upstream.flaw = "not_json"))
               => Sent(k) \in Range(requests[i].added)

\* C13: ordering. Whatever the shape of the manifest response, the list
\* fetchSnapshots returns is non-decreasing in timestamp.
C13_ReturnedInTimestampOrder ==
  pc = "returned" =>
    \A i, j \in DOMAIN returned :
      (i < j /\ typeof_number(returned[i].timestamp)
             /\ typeof_number(returned[j].timestamp))
        => returned[i].timestamp <= returned[j].timestamp

\* The k-th smallest of a list of keys, repetitions counted.
NthSmallest(keys, k) ==
  CHOOSE v \in Range(keys) :
    /\ Cardinality({j \in DOMAIN keys : keys[j] < v}) < k
    /\ k <= Cardinality({j \in DOMAIN keys : keys[j] <= v})

\* C14: chunk windowing. For n blob_v2 keys exactly ceil(n/20) range requests
\* are issued, the i-th from the (20(i-1)+1)-th smallest key to the
\* min(20i, n)-th smallest.
C14_ChunkWindowing ==
  LET n == Len(ManifestKeys)
      windows == (n + CHUNK_SIZE - 1) \div CHUNK_SIZE
  IN /\ Len(V2Requests) <= windows
     /\ (SourcesListed /\ pc \in {"blob", "returned"}) => Len(V2Requests) = windows
     /\ \A i \in DOMAIN V2Requests :
          /\ V2Requests[i].start = NthSmallest(ManifestKeys, CHUNK_SIZE * (i - 1) + 1)
          /\ V2Requests[i].end = NthSmallest(ManifestKeys, Min({CHUNK_SIZE * i, n}))

\* 45 consecutive keys listed newest first were fetched as [1..20], [21..40],
\* [41..45].
C14_Witness ==
  /\ pc = "returned"
  /\ Len(ManifestKeys) = 45
  /\ ManifestKeys[1] = 45
  /\ Len(V2Requests) = 3
  /\ <<V2Requests[1].start, V2Requests[1].end>> = <<1, 20>>
  /\ <<V2Requests[2].start, V2Requests[2].end>> = <<21, 40>>
  /\ <<V2Requests[3].start, V2Requests[3].end>> = <<41, 45>>

\* C15: no range request exceeds the upstream ceiling. The inclusive range
\* start_blob_key..end_blob_key of every blob_v2 request spans at most 20 keys.
C15_RangeWithinCeiling ==
  \A i \in DOMAIN V2Requests :
    V2Requests[i].end - V2Requests[i].start + 1 <= CHUNK_SIZE

Count(e, list) == Cardinality({i \in DOMAIN list : list[i] = e})

SameBag(a, b) == \A e \in Range(a) \cup Range(b) : Count(e, a) = Count(e, b)

Succeeded == SelectSeq(requests, LAMBDA r : r.outcome = "ok")

\* C16: partial fetch failure is recovered locally. With a manifest that lists
\* sources, fetchSnapshots raises no error whatever requests fail, and when it
\* returns it has issued every window and legacy request and returns exactly
\* the events added by the requests that succeeded.
C16_PartialFailureRecovered ==
  SourcesListed =>
    /\ pc # "threw"
    /\ \A i \in DOMAIN requests :
         requests[i].outcome # "ok" => requests[i].added = <<>>
    /\ pc = "returned" =>
         /\ Len(requests) =
              (Len(ManifestKeys) + CHUNK_SIZE - 1) \div CHUNK_SIZE
                + Len(filterSources(manifest.sources, "blob"))
         /\ SameBag(returned, concat([i \in DOMAIN Succeeded |-> Succeeded[i].added]))

\* A request failed with a non-OK status, a later one succeeded, and the events
\* of the later one were returned.
C16_Witness ==
  /\ pc = "returned"
  /\ \E i, j \in DOMAIN requests :
       /\ i < j
       /\ requests[i].outcome = "status"
       /\ requests[j].outcome = "ok"
       /\ requests[j].added # <<>>
       /\ returned = requests[j].added

\* No source gave fetchSnapshots an event.
NoEvents ==
  /\ \A i \in DOMAIN requests : requests[i].added = <<>>
  /\ manifest.shape = "windows" => concat(manifest.windows) = <<>>
  /\ manifest.shape = "array" => manifest.events = <<>>

\* C17: manifest failure and empty result are distinct outcomes. fetchSnapshots
\* raises an error if and only if the manifest request fails or the API key is
\* missing; with a manifest and no event from any source it returns the empty
\* list.
C17_ManifestFailureOrEmpty ==
  /\ pc = "threw" => (~apiKey \/ manifest.outcome # "ok")
  /\ (pc # "start" /\ (~apiKey \/ manifest.outcome # "ok")) => pc = "threw"
  /\ (pc = "returned" /\ NoEvents) => returned = <<>>

\* The manifest listed sources, every request failed, and the empty list was
\* returned.
C17_Witness ==
  /\ pc = "returned"
  /\ returned = <<>>
  /\ SourcesListed
  /\ requests # <<>>
  /\ \A i \in DOMAIN requests : requests[i].outcome # "ok"

\* C18: the reconstructed stream is de-duplicated. With a manifest that lists
\* sources, the returned list holds each upstream event at most once.
C18_Deduplicated ==
  (SourcesListed /\ pc = "returned") =>
    \A i, j \in DOMAIN returned : i # j => returned[i].id # returned[j].id

\* ------------------------------------------------------- SessionReplay
\* C19: playability gate. The player is only ever constructed with an event
\* list that holds a full snapshot (type 2); when the events that would be
\* handed to the player hold none, the view shows the incomplete-recording
\* message and no player is constructed.
C19_PlayableOnly ==
  /\ playerInstance.set => hasFullSnapshot(playerInstance.events)
  /\ (playerImport = "resolved" /\ ~hasFullSnapshot(validEvents(snapshots.events)))
       => (/\ ~playerInstance.set
           /\ error = "Recording data incomplete - missing full snapshot")

\* The fetch succeeded with a stream that cannot be played, and the page has
\* found that out: the stream is empty, or the player module has been loaded.
EmptyOrIncomplete ==
  /\ fetchCall = "resolved"
  /\ ~hasFullSnapshot(snapshots.events)
  /\ snapshots.events = <<>> \/ playerImport = "resolved"

\* C20: three distinguishable states. The player section shows loading while
\* the fetch is pending, "no recording available" when the fetch succeeded
\* with an empty or incomplete stream, and an error only when the fetch or the
\* player load failed.
C20_ThreeStates ==
  session = "loaded" =>
    /\ fetchCall = "pending" => View = "loading"
    /\ EmptyOrIncomplete => View = "noRecording"
    /\ View = "error" =>
         (fetchCall = "rejected" \/ playerImport \in {"threw", "rejected"})
    /\ fetchCall = "rejected" => View = "error"

\* ---------------------------------------------------------- sanitizer
\* Node-tree repair of a full-snapshot payload. The payload is an arena: node
\* i of the sequence has the fields id and type and the position of its parent
\* (0 for the root, which is node 1); the child list of a node is its children
\* in arena order.
MaxNodes == 5

\* typeof node.id === 'number' && typeof node.type === 'number'
isValidNode(node) == typeof_number(node.id) /\ typeof_number(node.type)

\* node.childNodes of the payload
ChildNodes(t, i) ==
  SelectSeq([j \in 1..Len(t) |-> j], LAMBDA j : t[j].parent = i)

\* Mutant of keepChild: an invalid child stays in the list (nulled, not dropped).
keepChild_nulled(t, j) == TRUE

\* The filter applied to a cleaned child list: the children that came back
\* non-null.
keepChild(t, j) == isValidNode(t[j])

\* The cleaned subtree of node i: nothing for an invalid node, else the node
\* with its filtered child list and the cleaned subtrees of the children kept.
RECURSIVE cleanNode(_, _)
cleanNode(t, i) ==
  IF ~isValidNode(t[i]) THEN {}
  ELSE LET kids == SelectSeq(ChildNodes(t, i), LAMBDA j : keepChild(t, j))
       IN {<<i, kids>>} \cup UNION {cleanNode(t, kids[k]) : k \in DOMAIN kids}

\* The sanitizer on the root of a full snapshot.
sanitize(t) ==
  LET c == cleanNode(t, 1)
  IN [set |-> TRUE, root |-> IF c = {} THEN null ELSE 1, nodes |-> c]

\* The nodes a full snapshot can hold at position i: well-formed, without an
\* id, with a type that is not a number.
NodesAt(i, parents) ==
  {[id |-> v.id, type |-> v.type, parent |-> p] :
     v \in {[id |-> i, type |-> 2], [id |-> undefined, type |-> 2],
            [id |-> i, type |-> aString]},
     p \in parents}

\* The payloads of n nodes: the root, then nodes under any earlier node.
RECURSIVE PayloadsOf(_)
PayloadsOf(n) ==
  IF n = 1 THEN {<<x>> : x \in NodesAt(1, {0})}
  ELSE {Append(t, x) : t \in PayloadsOf(n - 1), x \in NodesAt(n, 1..(n - 1))}

Payloads == PayloadsOf(MaxNodes)

Sanitize ==
  /\ ~sanitized.set
  /\ sanitized' = sanitize(payload)
  /\ UNCHANGED <<payload, clientVars, recordings, storeVars, readVars>>

InitSanitize ==
  /\ InitCapture
  /\ script = "recorder"
  /\ rrweb = FALSE
  /\ InitFetchIdle
  /\ InitViewIdle
  /\ payload \in Payloads
  /\ sanitized = [set |-> FALSE, root |-> null, nodes |-> {}]

NextSanitize == Sanitize

SpecSanitize == InitSanitize /\ [][NextSanitize]_vars

\* The nodes on the way from node i up to the root, i included.
RECURSIVE PathToRoot(_, _)
PathToRoot(t, i) == IF i = 0 THEN {} ELSE {i} \cup PathToRoot(t, t[i].parent)

\* Node i or one of its ancestors lacks a numeric id or a numeric type.
Pruned(t, i) == \E a \in PathToRoot(t, i) : ~isValidNode(t[a])

KeptNodes == {n[1] : n \in sanitized.nodes}

ChildListOf(i) == (CHOOSE n \in sanitized.nodes : n[1] = i)[2]

\* C21: in the sanitized output of a full snapshot, a node without a numeric id
\* or type is absent with all its descendants and is in no child list, and every
\* other node is there once, its child list being its children of the payload
\* that are well-formed, in the payload's order.
C21_NodePruningSound ==
  sanitized.set =>
    \A i \in DOMAIN payload :
      IF Pruned(payload, i)
      THEN /\ i \notin KeptNodes
           /\ \A n \in sanitized.nodes : i \notin Range(n[2])
      ELSE /\ Cardinality({n \in sanitized.nodes : n[1] = i}) = 1
           /\ ChildListOf(i) =
                SelectSeq(ChildNodes(payload, i),
                          LAMBDA j : ~Pruned(payload, j))

\* An invalid node with a descendant was pruned next to a sibling that has a
\* subtree of its own.
C21_Witness ==
  /\ sanitized.set
  /\ \E i, d, s, c \in DOMAIN payload :
       /\ ~isValidNode(payload[i]) /\ payload[i].parent = 1
       /\ payload[d].parent = i /\ isValidNode(payload[d])
       /\ s # i /\ payload[s].parent = 1 /\ payload[c].parent = s
       /\ {s, c} \subseteq KeptNodes
       /\ {i, d} \cap KeptNodes = {}

\* ------------------------------------------------------ a burst of events
\* The capture source emits a burst of events within one flush interval: the
\* timer does not fire and the page raises no lifecycle signal, so the size
\* threshold is the only trigger of a flush.
MaxBurst == 52

InitBurst == Init

NextBurst ==
  \/ Evaluate
  \/ RrwebLoaded
  \/ init
  \/ EmitUpTo(MaxBurst, MaxSends)
  \/ Ingest
  \/ Response
  \/ NetworkError

SpecBurst == InitBurst /\ [][NextBurst]_vars

\* C22: a record call that brings the pending queue to BATCH_SIZE events or
\* more calls the transport before it returns, with a batch that holds the
\* event just recorded.
C22_SizeThresholdFlush ==
  [][(emitted' = emitted + 1 /\ Len(events) + 1 >= BATCH_SIZE) =>
       /\ Len(sendLog') = Len(sendLog) + 1
       /\ emitted' \in Range(sendLog'[Len(sendLog')].events)]_vars

\* The 50th event of a burst has just been recorded and flushed with the 49
\* before it.
C22_Witness ==
  /\ emitted = BATCH_SIZE
  /\ Len(sendLog) = 1
  /\ Len(sendLog[1].events) = BATCH_SIZE
  /\ sendLog[1].events[BATCH_SIZE] = BATCH_SIZE

\* C23: every batch handed to the transport holds at most BATCH_SIZE events,
\* batches sent after a failed send was put back included.
C23_BatchesBounded ==
  \A i \in DOMAIN sendLog : Len(sendLog[i].events) <= BATCH_SIZE

\* A step in which stop() ends the running recorder: the handle is cleared and
\* the script stays initialized (forceStop() resets initialized).
StopStep == stopFn # null /\ stopFn' = null /\ initialized'

\* A step of forceStop(): initialized is reset and the stored id is removed.
ForceStopStep == ~initialized' /\ storage' = null /\ stopFn' = null

\* C24: stop() leaves the flush timer, the pending queue, the lifecycle
\* listeners and the stored session id as they are and calls the transport not
\* at all; a step that clears the timer is a step of forceStop().
C24_StopIsSuspend ==
  [][/\ StopStep =>
          /\ flushTimer' = flushTimer /\ flushTimer' # null
          /\ timers' = timers /\ flushTimer' \in timers'
          /\ UNCHANGED <<events, listeners, storage, sendLog, status>>
     /\ (flushTimer # null /\ flushTimer' = null) => ForceStopStep]_vars

\* stop() has suspended a recorder that holds pending events, and the timer is
\* still running.
C24_Witness ==
  /\ script = "recorder"
  /\ initialized /\ stopFn = null /\ recorders = {}
  /\ flushTimer # null /\ flushTimer \in timers
  /\ events # <<>>
  /\ storage # null

\* C25: every event of a batch handed to the transport was recorded while the
\* batch's sessionId was the current session id.
C25_SentUnderRecordingSession ==
  \A i \in DOMAIN sendLog :
    \A k \in DOMAIN sendLog[i].events :
      recordedIn[sendLog[i].events[k]] = sendLog[i].sessionId

\* C26: the events of the pending queue are in the order in which they were
\* recorded.
C26_QueueInRecordingOrder ==
  \A i, j \in DOMAIN events : i < j => events[i] < events[j]

\* How often event e occurs in the array arr.
Occurrences(arr, e) == Cardinality({k \in DOMAIN arr : arr[k] = e})

\* The batches that hold event e and whose request is in one of the states sts.
BatchesHolding(e, sts) ==
  {i \in DOMAIN sendLog : status[i] \in sts /\ e \in Range(sendLog[i].events)}

\* C27: each recorded event is in exactly one place: once in the pending queue,
\* or in one batch in flight, or in one batch whose send was reported
\* successful (a 2xx response to a fetch, a beacon the browser accepted).
C27_ClientConservation ==
  \A e \in 1..emitted :
    Occurrences(events, e)
      + Cardinality(BatchesHolding(e, {"sent", "ok", "err"}))
      + Cardinality(BatchesHolding(e, {"delivered", "lost"})) = 1

\* ----------------------------------------------- sends stop failing
\* The recorder script on a network whose sends eventually stop failing: at
\* most MaxFailures requests of a behaviour end in a failure. Every batch that
\* failed is sent once more, so MaxEvents + MaxFailures transport calls are
\* never too few.
MaxFailures == 1

Failures ==
  Cardinality({i \in DOMAIN status :
                 status[i] \in {"err", "failed", "unacked", "refused"}})

\* Step A on that network.
WhileFailing(A) == A /\ Failures' <= MaxFailures

LiveSends == MaxEvents + MaxFailures

InitLive == Init /\ script = "recorder"

NextLive ==
  \/ Evaluate
  \/ RrwebLoaded
  \/ init
  \/ stop
  \/ forceStop(LiveSends)
  \/ Emit(LiveSends)
  \/ TimerFires(LiveSends)
  \/ PageSignal(LiveSends)
  \/ VisibilityChange(LiveSends)
  \/ WhileFailing(Ingest)
  \/ Response
  \/ WhileFailing(NetworkError)

\* setInterval fires its callback again and again while the timer is running;
\* the page raises its lifecycle signals; a request reaches the server and its
\* response reaches the page.
FairLive ==
  /\ WF_vars(TimerFires(LiveSends))
  /\ WF_vars(PageSignal(LiveSends))
  /\ WF_vars(VisibilityChange(LiveSends) /\ events' # events)
  /\ WF_vars(WhileFailing(Ingest))
  /\ WF_vars(Response)

SpecLive == InitLive /\ [][NextLive]_vars /\ FairLive

\* Event e is in the event list the server holds for the session it was
\* recorded in.
StoredInItsSession(e) ==
  /\ e \in DOMAIN recordedIn
  /\ e \in Range(ServerEvents(recordedIn[e]))

\* C28: when sends stop failing and the flush triggers fire fairly, every
\* recorded event is eventually in the server's event list of its session.
C28_EventualDelivery ==
  \A e \in 1..MaxEvents : (emitted >= e) ~> StoredInItsSession(e)

\* C29: at most one recorder is capturing, the one stopFn holds, and no event
\* is more than once in the pending queue or in a batch.
C29_OneCaptureSubscription ==
  /\ Cardinality(recorders) <= 1
  /\ recorders \subseteq {stopFn}
  /\ \A e \in 1..emitted :
       /\ Occurrences(events, e) <= 1
       /\ \A i \in DOMAIN sendLog : Occurrences(sendLog[i].events, e) <= 1

\* init() was called again after a stop(), one recorder is capturing and both
\* events it pushed are pending.
C29_Witness ==
  /\ script = "recorder"
  /\ epoch.starts = 2
  /\ Cardinality(recorders) = 1
  /\ events = <<1, 2>>

\* The response to the request of this step.
LastResult == results'[Len(results')]

\* C30: a body without a sessionId or without events (missing, null or empty)
\* is answered 400 and the recordings are left as they are; a body with both
\* has the create mutation run once and is answered 200 with the batch merged
\* into the session's record, or 500 with nothing stored when the mutation
\* throws; a body that cannot be read is answered 500 with nothing stored.
C30_IngestValidation ==
  [][calls' = calls + 1 =>
       LET r == LastResult
           lacks == \/ "sessionId" \notin r.keys \/ "events" \notin r.keys
                    \/ r.sessionId \in {null, emptyString}
       IN IF r.threw = "json"
          THEN r.code = 500 /\ r.ran = 0 /\ recordings' = recordings
          ELSE IF lacks
          THEN r.code = 400 /\ r.ran = 0 /\ recordings' = recordings
          ELSE /\ r.ran = 1
               /\ r.code \in {200, 500}
               /\ r.code = 500 <=> r.threw = "mutation"
               /\ r.code = 500 => recordings' = recordings
               /\ r.code = 200 =>
                    \E batch \in EventBatches \cup {<<>>} :
                      recordings' = create(recordings,
                                           [sessionId |-> r.sessionId,
                                            events |-> batch]).db]_vars

\* One request was refused with 400 and one was stored.
C30_Witness ==
  /\ \E i \in DOMAIN results :
       results[i].code = 400 /\ results[i].keys = {"sessionId"}
  /\ \E i \in DOMAIN results : results[i].code = 200
  /\ Len(recordings) = 1

====
